---- MODULE Spec2Model ----
(* A model of mines.c: the board engine (mine placement, adjacency counts,   *)
(* the breadcrumb flood fill of reveal), first-reveal relocation, and the    *)
(* command interpreter run_command together with the loop of main.           *)
EXTENDS Integers, Sequences, FiniteSets, TLC

\* ------------------------------------------------------------------ bounds
\* Largest board area (g_width * g_height) explored; every width and height
\* the program accepts whose product stays within it is a starting board.
MaxTiles == 4

\* Largest board area on which the loop of reveal is followed step by step.
MaxFloodTiles == 6

\* ---------------------------------------------------------------- constants
MIN_WIDTH == 1
MAX_WIDTH == 26
MIN_HEIGHT == 1
MAX_HEIGHT == 30
MIN_MINES == 0
MAX_MINES == 780

\* --------------------------------------------------------------- variables
VARIABLES
    g_width,              \* board width
    g_height,             \* board height
    g_n_mines,            \* number of mines
    g_board_initialized,  \* 0 until init_board has run
    g_n_flags,            \* number of flagged tiles
    g_n_found,            \* number of flagged tiles holding a mine
    g_board,              \* [<<x, y>> -> tile]
    status,               \* "Playing", "Won", "Lost" or "Quit": where main is
    cmd,                  \* the command run_command processed last
    undo,                 \* the state a non-final flag toggle started from
    score,                \* <<n>> once main has printed the score n
    fill                  \* where reveal's loop is, when it runs step by step

vars == <<g_width, g_height, g_n_mines, g_board_initialized, g_n_flags,
          g_n_found, g_board, status, cmd, undo, score, fill>>

\* ------------------------------------------------------------- board basics
\* The table of square sines, extended by a quarter cycle for cosines.
sines == <<0, 1, 1, 1, 0, -1, -1, -1, 0, 1>>
sine(angle) == sines[angle + 1]
cosine(angle) == sines[angle + 3]

\* A tile of g_board as the zero-initialised global holds it.
ZeroTile == [mine |-> 0, revealed |-> 0, flagged |-> 0,
             dx |-> 0, dy |-> 0, angle |-> 0, around |-> 0]

\* The tiles of a w x h board, indexed <<x, y>>.
Tiles(w, h) == (0 .. w - 1) \X (0 .. h - 1)

\* ax >= 0 && ax < g_width && ay >= 0 && ay < g_height
InGrid(w, h, ax, ay) == ax >= 0 /\ ax < w /\ ay >= 0 /\ ay < h

\* The i-th cell in the row-major walk (x fastest) of init_board, make_space.
Cell(w, i) == <<i % w, i \div w>>

\* The board a game starts with.
EmptyBoard(w, h) == [p \in Tiles(w, h) |-> ZeroTile]

\* ---------------------------------------------------------------- init_board
\* First loop: the first n cells in row-major order get a mine.
RECURSIVE PlaceMines(_, _, _, _)
PlaceMines(b, w, i, n) ==
    IF i >= n THEN b
    ELSE PlaceMines([b EXCEPT ![Cell(w, i)].mine = 1], w, i + 1, n)

\* temp = g_board[x][y]; g_board[x][y] = *there; *there = temp;
SwapTiles(b, here, there) ==
    [b EXCEPT ![here] = b[there], ![there] = b[here]]

\* Second loop: cell i is swapped with a tile rand() picks; every outcome.
RECURSIVE Shuffle(_, _, _, _, _)
Shuffle(S, w, h, i, n) ==
    IF i >= n THEN S
    ELSE Shuffle({SwapTiles(b, Cell(w, i), there) :
                      b \in S, there \in Tiles(w, h)},
                 w, h, i + 1, n)

\* The inner angle loop of the third pass: mines on the in-grid neighbours.
RECURSIVE AroundFrom(_, _, _, _, _, _)
AroundFrom(b, w, h, x, y, angle) ==
    IF angle >= 8 THEN 0
    ELSE LET ax == x + cosine(angle)
             ay == y + sine(angle)
         IN (IF InGrid(w, h, ax, ay) THEN b[<<ax, ay>>].mine ELSE 0)
            + AroundFrom(b, w, h, x, y, angle + 1)

\* Third pass: around += the mines around each tile (a 4-bit field).
CalcAround(b, w, h) ==
    [p \in Tiles(w, h) |->
        [b[p] EXCEPT !.around =
            (@ + AroundFrom(b, w, h, p[1], p[2], 0)) % 16]]

\* Every board init_board can leave when it does run.
init_board(b, w, h, n) ==
    {CalcAround(s, w, h) : s \in Shuffle({PlaceMines(b, w, 0, n)}, w, h, 0, n)}

\* init_board without its guard: every call places and shuffles again.
InitOnce_NoGuard(b, w, h, n, initialized) == init_board(b, w, h, n)

\* init_board with its guard: a no-op once g_board_initialized is set.
InitOnce(b, w, h, n, initialized) ==
    IF initialized # 0 THEN {b} ELSE init_board(b, w, h, n)

\* ---------------------------------------------------------------- reveal_all
\* reveal_all stopping short of the last column.
reveal_all_SkipLast(b) ==
    [p \in DOMAIN b |->
        IF \E q \in DOMAIN b : q[1] > p[1]
        THEN [b[p] EXCEPT !.revealed = 1] ELSE b[p]]

reveal_all(b) == [p \in DOMAIN b |-> [b[p] EXCEPT !.revealed = 1]]

\* -------------------------------------------------------------------- reveal
\* The breadcrumb flood fill, one operator per point of the loop:
\*   CheckTile  the label check_tile: mark (x, y) revealed, test around;
\*   ScanAngles the inner for loop over t->angle;
\*   Backtrack  the code after the scan: reset the angle, follow dx/dy back.
RECURSIVE CheckTile(_, _, _, _, _)
RECURSIVE ScanAngles(_, _, _, _, _)
RECURSIVE Backtrack(_, _, _, _, _)

\* The neighbour test without && !g_board[ax][ay].revealed.
EnterNeighbour_NoRevealedTest(b, w, h, ax, ay) == InGrid(w, h, ax, ay)

\* if (ax in grid && !g_board[ax][ay].revealed): the neighbour is entered.
EnterNeighbour(b, w, h, ax, ay) ==
    InGrid(w, h, ax, ay) /\ b[<<ax, ay>>].revealed = 0

CheckTile(b, w, h, x, y) ==
    LET b1 == [b EXCEPT ![<<x, y>>].revealed = 1]
    IN IF b1[<<x, y>>].around = 0
       THEN ScanAngles(b1, w, h, x, y)
       ELSE Backtrack(b1, w, h, x, y)

ScanAngles(b, w, h, x, y) ==
    LET t == b[<<x, y>>]
    IN IF t.angle < 8
       THEN LET ax == x + cosine(t.angle)
                ay == y + sine(t.angle)
            IN IF EnterNeighbour(b, w, h, ax, ay)
               THEN CheckTile([b EXCEPT ![<<ax, ay>>].dx = x - ax,
                                        ![<<ax, ay>>].dy = y - ay],
                              w, h, ax, ay)
               ELSE ScanAngles([b EXCEPT ![<<x, y>>].angle = @ + 1],
                               w, h, x, y)
       ELSE Backtrack(b, w, h, x, y)

\* The backtracking step without t->angle = 0.
Backtrack_KeepAngle(b, w, h, x, y) ==
    LET t == b[<<x, y>>]
    IN IF t.dx = 0 /\ t.dy = 0
       THEN b
       ELSE CheckTile(b, w, h, x + t.dx, y + t.dy)

Backtrack(b, w, h, x, y) ==
    LET b1 == [b EXCEPT ![<<x, y>>].angle = 0]
        t == b1[<<x, y>>]
    IN IF t.dx = 0 /\ t.dy = 0
       THEN b1
       ELSE CheckTile(b1, w, h, x + t.dx, y + t.dy)

\* reveal with its two early returns in the other order.
reveal_RevealedFirst(b, w, h, x, y) ==
    IF b[<<x, y>>].revealed = 1 THEN [ret |-> 1, board |-> b]
    ELSE IF b[<<x, y>>].mine = 1 THEN [ret |-> 0, board |-> b]
    ELSE [ret |-> 1,
          board |-> CheckTile([b EXCEPT ![<<x, y>>].dx = 0,
                                        ![<<x, y>>].dy = 0],
                              w, h, x, y)]

\* reveal(x, y): ret is the returned value, board the board it leaves.
reveal(b, w, h, x, y) ==
    IF b[<<x, y>>].mine = 1 THEN [ret |-> 0, board |-> b]
    ELSE IF b[<<x, y>>].revealed = 1 THEN [ret |-> 1, board |-> b]
    ELSE [ret |-> 1,
          board |-> CheckTile([b EXCEPT ![<<x, y>>].dx = 0,
                                        ![<<x, y>>].dy = 0],
                              w, h, x, y)]

\* ---------------------------------------------------------------- make_space
\* The scan of make_space without the line that clears the mine at (x, y).
RECURSIVE MoveMine_KeepOld(_, _, _, _, _, _, _)
MoveMine_KeepOld(b, w, h, x, y, i, nth) ==
    IF i >= w * h THEN b
    ELSE LET e == Cell(w, i)
         IN IF b[e].mine = 0
            THEN IF nth <= 0
                 THEN [b EXCEPT ![e].mine = 1]
                 ELSE MoveMine_KeepOld(b, w, h, x, y, i + 1, nth - 1)
            ELSE MoveMine_KeepOld(b, w, h, x, y, i + 1, nth)

\* The scan for the nth empty tile, from row-major cell i on.
RECURSIVE MoveMine(_, _, _, _, _, _, _)
MoveMine(b, w, h, x, y, i, nth) ==
    IF i >= w * h THEN b
    ELSE LET e == Cell(w, i)
         IN IF b[e].mine = 0
            THEN IF nth <= 0
                 THEN [[b EXCEPT ![<<x, y>>].mine = 0] EXCEPT ![e].mine = 1]
                 ELSE MoveMine(b, w, h, x, y, i + 1, nth - 1)
            ELSE MoveMine(b, w, h, x, y, i + 1, nth)

\* make_space drawing nth one too high, so that the scan can run off the board.
make_space_OffByOne(b, w, h, n, x, y) ==
    IF b[<<x, y>>].mine = 0 THEN {b}
    ELSE IF n >= w * h THEN {b}
    ELSE {MoveMine(b, w, h, x, y, 0, nth) : nth \in 1 .. (w * h - n)}

\* Every board make_space(x, y) can leave: nth is rand() % (n_tiles - mines).
make_space(b, w, h, n, x, y) ==
    IF b[<<x, y>>].mine = 0 THEN {b}
    ELSE IF n >= w * h THEN {b}
    ELSE {MoveMine(b, w, h, x, y, 0, nth) : nth \in 0 .. (w * h - n - 1)}

\* ------------------------------------------------------------ parse_location
\* A command's position token: col is the index of its letter in the alphabet
\* (-1 when the character is no letter), row what atoi reads after it.
NoLocation == <<-1, -1>>
parse_location(col, row, w, h) ==
    IF col < 0 THEN NoLocation
    ELSE IF col >= w THEN NoLocation
    ELSE IF row - 1 < 0 \/ row - 1 >= h THEN NoLocation
    ELSE <<col, row - 1>>

\* ---------------------------------------------------------------- calc_score
\* The largest value of an int.
INT_MAX == 2147483647

\* g_n_found * g_n_found * 1000 does not fit an int.
ProductOverflows(found) == found * found > INT_MAX \div 1000

\* calc_score dividing before it scales.
calc_score_ScaleLast(found, w, h) ==
    {(((found * found) \div w) \div h) * 1000}

\* Every value calc_score can return. All operands are >= 0, so C's division
\* is \div. A product beyond INT_MAX is undefined: any int may come back, of
\* which the model draws a few.
calc_score(found, w, h) ==
    IF ProductOverflows(found) THEN {-INT_MAX, -1, 0, 1, INT_MAX}
    ELSE {((found * found * 1000) \div w) \div h}

\* --------------------------------------------------------------- run_command
\* What the last command was: kind is its first character ("r" also stands
\* for a bare position), col and row its position token, first whether it ran
\* init_board on a fresh board, moved whether make_space moved a mine, answer
\* what was typed at the prompt of 'q' ("none" when nothing was asked).
Command(kind, col, row, first, moved) ==
    [kind |-> kind, col |-> col, row |-> row, first |-> first, moved |-> moved,
     answer |-> "none"]
NoCommand == Command("none", -1, 0, FALSE, FALSE)

\* undo holds, after a flag toggle that did not end the game, the tile p it
\* toggled and the board, counters and g_board_initialized it started from;
\* twice says that the command before it was such a toggle of the same tile on
\* an initialized board. After any other command it is NoUndo.
NoUndo == [valid |-> FALSE]

\* The count of forward entries into a tile stops here: beyond 1 it only
\* matters that it is more than 1.
MaxEntered == 2

\* No score printed yet.
NoScore == <<>>

\* reveal is not running. While it runs, fill holds the point of its loop
\* (pc), its x and y, the tile it was called with (start), the board it was
\* called on (from) and how often a forward step entered each tile (entered).
IdleFill == [pc |-> "idle", x |-> -1, y |-> -1, start |-> NoLocation,
             from |-> <<>>, entered |-> <<>>]

\* The position tokens a command is tried with: every tile of the board, and
\* one token for each way parse_location fails: no letter, a letter beyond
\* the last column, row 0, a row beyond the last.
Tokens ==
    {<<p[1], p[2] + 1>> : p \in Tiles(g_width, g_height)}
        \cup {<<-1, 1>>, <<g_width, 1>>, <<0, 0>>, <<0, g_height + 1>>}

\* The toggle whose unflag branch forgets g_n_found.
ToggleFlag_StaleFound(b, p, flags, found) ==
    IF b[p].flagged = 1
    THEN [board |-> [b EXCEPT ![p].flagged = 0],
          flags |-> flags - 1,
          found |-> found]
    ELSE [board |-> [b EXCEPT ![p].flagged = 1],
          flags |-> flags + 1,
          found |-> found + b[p].mine]

\* The toggle whose unflag branch forgets g_n_flags.
ToggleFlag_StaleFlags(b, p, flags, found) ==
    IF b[p].flagged = 1
    THEN [board |-> [b EXCEPT ![p].flagged = 0],
          flags |-> flags,
          found |-> found - b[p].mine]
    ELSE [board |-> [b EXCEPT ![p].flagged = 1],
          flags |-> flags + 1,
          found |-> found + b[p].mine]

\* case 'f', lines 458-466: toggle the flag of tile p and keep the counters.
ToggleFlag(b, p, flags, found) ==
    IF b[p].flagged = 1
    THEN [board |-> [b EXCEPT ![p].flagged = 0],
          flags |-> flags - 1,
          found |-> found - b[p].mine]
    ELSE [board |-> [b EXCEPT ![p].flagged = 1],
          flags |-> flags + 1,
          found |-> found + b[p].mine]

\* The win test without its second half.
WinCondition_FoundOnly(found, flags, mines) == found = mines

\* g_n_found == g_n_mines && g_n_flags == g_n_found
WinCondition(found, flags, mines) == found = mines /\ flags = found

\* The tail of run_command had init_board been called before the parse.
Invalid_InitsBoard(kind, col, row) ==
    \E b1 \in InitOnce(g_board, g_width, g_height, g_n_mines,
                       g_board_initialized) :
        /\ g_board' = b1
        /\ g_board_initialized' = 1
        /\ cmd' = Command(kind, col, row, FALSE, FALSE)
        /\ undo' = NoUndo
        /\ UNCHANGED <<g_width, g_height, g_n_mines, g_n_flags, g_n_found,
                       status>>

\* The tail of run_command: "Invalid command", nothing else changes.
Invalid(kind, col, row) ==
    /\ cmd' = Command(kind, col, row, FALSE, FALSE)
    /\ undo' = NoUndo
    /\ UNCHANGED <<g_width, g_height, g_n_mines, g_board_initialized,
                   g_n_flags, g_n_found, g_board, status>>

\* case '\0': print the board.
CmdEmpty ==
    /\ status = "Playing"
    /\ cmd' = Command("empty", -1, 0, FALSE, FALSE)
    /\ undo' = NoUndo
    /\ UNCHANGED <<g_width, g_height, g_n_mines, g_board_initialized,
                   g_n_flags, g_n_found, g_board, status>>

\* case 'h', case '?': print the help.
CmdHelp ==
    /\ status = "Playing"
    /\ cmd' = Command("h", -1, 0, FALSE, FALSE)
    /\ undo' = NoUndo
    /\ UNCHANGED <<g_width, g_height, g_n_mines, g_board_initialized,
                   g_n_flags, g_n_found, g_board, status>>

\* case 'f' without the test of revealed around the toggle.
CmdFlag_NoRevealedTest(col, row) ==
    /\ status = "Playing"
    /\ LET p == parse_location(col, row, g_width, g_height)
       IN IF p = NoLocation THEN Invalid("f", col, row)
          ELSE \E b1 \in InitOnce(g_board, g_width, g_height, g_n_mines,
                                  g_board_initialized) :
                 LET t == ToggleFlag(b1, p, g_n_flags, g_n_found)
                     won == WinCondition(t.found, t.flags, g_n_mines)
                 IN /\ g_board_initialized' = 1
                    /\ g_n_flags' = t.flags
                    /\ g_n_found' = t.found
                    /\ g_board' = IF won THEN reveal_all(t.board) ELSE t.board
                    /\ status' = IF won THEN "Won" ELSE "Playing"
                    /\ cmd' = Command("f", col, row,
                                      g_board_initialized = 0, FALSE)
                    /\ undo' = NoUndo
                    /\ UNCHANGED <<g_width, g_height, g_n_mines>>

\* case 'f'
CmdFlag(col, row) ==
    /\ status = "Playing"
    /\ LET p == parse_location(col, row, g_width, g_height)
       IN IF p = NoLocation THEN Invalid("f", col, row)
          ELSE IF g_board[p].revealed = 0
          THEN \E b1 \in InitOnce(g_board, g_width, g_height, g_n_mines,
                                  g_board_initialized) :
                 LET t == ToggleFlag(b1, p, g_n_flags, g_n_found)
                     won == WinCondition(t.found, t.flags, g_n_mines)
                 IN /\ g_board_initialized' = 1
                    /\ g_n_flags' = t.flags
                    /\ g_n_found' = t.found
                    /\ g_board' = IF won THEN reveal_all(t.board) ELSE t.board
                    /\ status' = IF won THEN "Won" ELSE "Playing"
                    /\ cmd' = Command("f", col, row,
                                      g_board_initialized = 0, FALSE)
                    /\ undo' = IF won THEN NoUndo
                               ELSE [valid |-> TRUE, p |-> p, board |-> b1,
                                     flags |-> g_n_flags,
                                     found |-> g_n_found,
                                     initialized |-> g_board_initialized,
                                     twice |-> /\ undo.valid
                                               /\ undo.p = p
                                               /\ undo.initialized = 1]
                    /\ UNCHANGED <<g_width, g_height, g_n_mines>>
          ELSE /\ cmd' = Command("f", col, row, FALSE, FALSE)
               /\ undo' = NoUndo
               /\ UNCHANGED <<g_width, g_height, g_n_mines,
                              g_board_initialized, g_n_flags, g_n_found,
                              g_board, status>>

\* print_quit_info: init_board (a no-op if it ran before), reveal_all.
print_quit_info(kind, answer) ==
    \E b1 \in InitOnce(g_board, g_width, g_height, g_n_mines,
                       g_board_initialized) :
        /\ g_board_initialized' = 1
        /\ g_board' = reveal_all(b1)
        /\ status' = "Quit"
        /\ cmd' = [Command(kind, -1, 0, g_board_initialized = 0, FALSE)
                      EXCEPT !.answer = answer]
        /\ undo' = NoUndo
        /\ UNCHANGED <<g_width, g_height, g_n_mines, g_n_flags, g_n_found>>

\* case 'q' asking for confirmation whether or not the board is initialized.
CmdQuit_AlwaysAsks(answer) ==
    /\ status = "Playing"
    /\ IF answer = "n"
       THEN /\ cmd' = [Command("q", -1, 0, FALSE, FALSE)
                          EXCEPT !.answer = answer]
            /\ undo' = NoUndo
            /\ UNCHANGED <<g_width, g_height, g_n_mines, g_board_initialized,
                           g_n_flags, g_n_found, g_board, status>>
       ELSE print_quit_info("q", answer)

\* case 'q': answer is what the player types at the prompt: "y" a line that
\* starts with y or Y, "n" any other line, "eof" no more input. Nothing is
\* asked while the board is not initialized.
CmdQuit(answer) ==
    /\ status = "Playing"
    /\ IF g_board_initialized # 0
       THEN IF answer = "n"
            THEN /\ cmd' = [Command("q", -1, 0, FALSE, FALSE)
                               EXCEPT !.answer = answer]
                 /\ undo' = NoUndo
                 /\ UNCHANGED <<g_width, g_height, g_n_mines,
                                g_board_initialized, g_n_flags, g_n_found,
                                g_board, status>>
            ELSE print_quit_info("q", answer)
       ELSE print_quit_info("q", "none")

\* case 'r' and default
CmdReveal(col, row) ==
    /\ status = "Playing"
    /\ LET p == parse_location(col, row, g_width, g_height)
       IN IF p = NoLocation THEN Invalid("r", col, row)
          ELSE \E b1 \in InitOnce(g_board, g_width, g_height, g_n_mines,
                                  g_board_initialized) :
               \E b2 \in (IF g_board_initialized = 0
                          THEN make_space(b1, g_width, g_height, g_n_mines,
                                          p[1], p[2])
                          ELSE {b1}) :
                 /\ g_board_initialized' = 1
                 /\ cmd' = Command("r", col, row,
                                   g_board_initialized = 0, b2 # b1)
                 /\ undo' = NoUndo
                 /\ IF b2[p].flagged = 1
                    THEN /\ g_board' = b2
                         /\ status' = "Playing"
                    ELSE LET r == reveal(b2, g_width, g_height, p[1], p[2])
                         IN IF r.ret = 0
                            THEN /\ g_board' = reveal_all(r.board)
                                 /\ status' = "Lost"
                            ELSE /\ g_board' = r.board
                                 /\ status' = "Playing"
                 /\ UNCHANGED <<g_width, g_height, g_n_mines, g_n_flags,
                                g_n_found>>

\* main: read_input returns -1 at the end of the input.
EndOfInput ==
    /\ status = "Playing"
    /\ print_quit_info("eof", "none")

\* ---------------------------------------------------------------------- main
\* parse_options: the board size and the mine count, clamped to the area.
Init ==
    /\ g_width \in MIN_WIDTH .. MAX_WIDTH
    /\ g_height \in MIN_HEIGHT .. MAX_HEIGHT
    /\ g_width * g_height <= MaxTiles
    /\ \E mines \in {m \in MIN_MINES .. MAX_MINES : m <= MaxTiles + 1} :
         g_n_mines = IF mines > g_width * g_height
                     THEN g_width * g_height ELSE mines
    /\ g_board_initialized = 0
    /\ g_n_flags = 0
    /\ g_n_found = 0
    /\ g_board = EmptyBoard(g_width, g_height)
    /\ status = "Playing"
    /\ cmd = NoCommand
    /\ undo = NoUndo
    /\ score = NoScore
    /\ fill = IdleFill

\* main, label print_score: reached as soon as the game is over.
print_score ==
    IF status' # "Playing"
    THEN \E n \in calc_score(g_n_found', g_width', g_height') :
             score' = <<n>>
    ELSE score' = score

\* What main does after a command; reveal runs within its command.
AfterCommand == print_score /\ UNCHANGED fill

Next ==
    \/ CmdEmpty /\ AfterCommand
    \/ CmdHelp /\ AfterCommand
    \/ \E tok \in Tokens : CmdFlag(tok[1], tok[2]) /\ AfterCommand
    \/ \E tok \in Tokens : CmdReveal(tok[1], tok[2]) /\ AfterCommand
    \/ \E answer \in {"y", "n", "eof"} : CmdQuit(answer) /\ AfterCommand
    \/ EndOfInput /\ AfterCommand

Spec == Init /\ [][Next]_vars

\* ------------------------------------------------- reveal, one step at a time
\* The same game with Reveal commands only and the loop of reveal taken one
\* step at a time. The loop never reads flagged, so no flag is placed here.

\* run_command, case 'r', up to the first pass of reveal's loop.
FillStart(col, row) ==
    /\ status = "Playing"
    /\ fill.pc = "idle"
    /\ LET p == parse_location(col, row, g_width, g_height)
       IN /\ p # NoLocation
          /\ \E b1 \in InitOnce(g_board, g_width, g_height, g_n_mines,
                                g_board_initialized) :
             \E b2 \in (IF g_board_initialized = 0
                        THEN make_space(b1, g_width, g_height, g_n_mines,
                                        p[1], p[2])
                        ELSE {b1}) :
               /\ g_board_initialized' = 1
               /\ cmd' = Command("r", col, row,
                                 g_board_initialized = 0, b2 # b1)
               /\ undo' = NoUndo
               /\ IF b2[p].flagged = 1
                  THEN g_board' = b2 /\ status' = "Playing" /\ fill' = IdleFill
                  ELSE IF b2[p].mine = 1
                  THEN /\ g_board' = reveal_all(b2)
                       /\ status' = "Lost"
                       /\ fill' = IdleFill
                  ELSE IF b2[p].revealed = 1
                  THEN g_board' = b2 /\ status' = "Playing" /\ fill' = IdleFill
                  ELSE /\ g_board' = [b2 EXCEPT ![p].dx = 0, ![p].dy = 0]
                       /\ status' = "Playing"
                       /\ fill' = [pc |-> "check_tile", x |-> p[1],
                                   y |-> p[2], start |-> p, from |-> b2,
                                   entered |-> [q \in DOMAIN b2 |-> 0]]
               /\ UNCHANGED <<g_width, g_height, g_n_mines, g_n_flags,
                              g_n_found>>
               /\ print_score

\* What a step of the loop leaves alone.
FillFrame ==
    UNCHANGED <<g_width, g_height, g_n_mines, g_board_initialized,
                g_n_flags, g_n_found, status, cmd, undo, score>>

\* check_tile: t->revealed = 1; if (t->around == 0) ...
FillCheck ==
    /\ fill.pc = "check_tile"
    /\ LET p == <<fill.x, fill.y>>
       IN /\ g_board' = [g_board EXCEPT ![p].revealed = 1]
          /\ fill' = [fill EXCEPT !.pc = IF g_board[p].around = 0
                                         THEN "scan" ELSE "back"]
    /\ FillFrame

\* One pass of for (; t->angle < 8; ++t->angle).
FillScan ==
    /\ fill.pc = "scan"
    /\ LET p == <<fill.x, fill.y>>
           t == g_board[p]
       IN IF t.angle < 8
          THEN LET ax == fill.x + cosine(t.angle)
                   ay == fill.y + sine(t.angle)
               IN IF EnterNeighbour(g_board, g_width, g_height, ax, ay)
                  THEN /\ g_board' =
                            [g_board EXCEPT ![<<ax, ay>>].dx = fill.x - ax,
                                            ![<<ax, ay>>].dy = fill.y - ay]
                       /\ fill' =
                            [fill EXCEPT
                               !.pc = "check_tile", !.x = ax, !.y = ay,
                               !.entered[<<ax, ay>>] =
                                   IF @ < MaxEntered THEN @ + 1 ELSE @]
                  ELSE /\ g_board' = [g_board EXCEPT ![p].angle = @ + 1]
                       /\ UNCHANGED fill
          ELSE /\ fill' = [fill EXCEPT !.pc = "back"]
               /\ UNCHANGED g_board
    /\ FillFrame

\* t->angle = 0; if (t->dx == 0 && t->dy == 0) break; x += t->dx; y += t->dy;
FillBack ==
    /\ fill.pc = "back"
    /\ LET p == <<fill.x, fill.y>>
           t == g_board[p]
       IN /\ g_board' = [g_board EXCEPT ![p].angle = 0]
          /\ fill' = IF t.dx = 0 /\ t.dy = 0
                     THEN [fill EXCEPT !.pc = "idle"]
                     ELSE [fill EXCEPT !.pc = "check_tile",
                                       !.x = @ + t.dx, !.y = @ + t.dy]
    /\ FillFrame

FillStep == FillCheck \/ FillScan \/ FillBack

FloodNext ==
    \/ \E tok \in Tokens : FillStart(tok[1], tok[2])
    \/ FillCheck
    \/ FillScan
    \/ FillBack

\* parse_options, for the boards the loop is followed on.
FloodInit ==
    /\ g_width \in MIN_WIDTH .. MAX_WIDTH
    /\ g_height \in MIN_HEIGHT .. MAX_HEIGHT
    /\ g_width * g_height <= MaxFloodTiles
    /\ g_n_mines \in {m \in MIN_MINES .. MAX_MINES : m <= g_width * g_height}
    /\ g_board_initialized = 0
    /\ g_n_flags = 0
    /\ g_n_found = 0
    /\ g_board = EmptyBoard(g_width, g_height)
    /\ status = "Playing"
    /\ cmd = NoCommand
    /\ undo = NoUndo
    /\ score = NoScore
    /\ fill = IdleFill

\* The loop is sequential code: once entered it keeps taking steps.
SpecFlood == FloodInit /\ [][FloodNext]_vars /\ WF_vars(FillStep)

\* ------------------------------------------------------- calc_score on its own
\* main at print_score for every board size the options accept and every
\* g_n_found such a board allows. The tiles play no part in calc_score and
\* are left out.
ScoreInit ==
    /\ g_width \in MIN_WIDTH .. MAX_WIDTH
    /\ g_height \in MIN_HEIGHT .. MAX_HEIGHT
    /\ g_n_found \in 0 .. g_width * g_height
    /\ g_n_flags = g_n_found
    /\ g_n_mines = g_n_found
    /\ g_board_initialized = 1
    /\ g_board = <<>>
    /\ status = "Quit"
    /\ cmd = NoCommand
    /\ undo = NoUndo
    /\ score = NoScore
    /\ fill = IdleFill

\* printf("Score: %d\n", calc_score());
ScoreStep ==
    /\ score = NoScore
    /\ \E n \in calc_score(g_n_found, g_width, g_height) : score' = <<n>>
    /\ UNCHANGED <<g_width, g_height, g_n_mines, g_board_initialized,
                   g_n_flags, g_n_found, g_board, status, cmd, undo, fill>>

SpecScore == ScoreInit /\ [][ScoreStep]_vars

\* ------------------------------------------------------------------- claims
\* The tile the last command named, NoLocation when it named none.
LastLoc == parse_location(cmd.col, cmd.row, g_width, g_height)

\* The last command was 'f' or 'r' with a position on the board.
LastFlag == cmd.kind = "f" /\ LastLoc # NoLocation
LastReveal == cmd.kind = "r" /\ LastLoc # NoLocation

AllTiles == DOMAIN g_board
MineTiles == {p \in AllTiles : g_board[p].mine = 1}
FlaggedTiles == {p \in AllTiles : g_board[p].flagged = 1}
RevealedTiles == {p \in AllTiles : g_board[p].revealed = 1}

\* The in-grid neighbours of p that hold a mine.
MinedNeighbours(p) ==
    {q \in MineTiles : /\ q # p
                       /\ q[1] - p[1] \in {-1, 0, 1}
                       /\ q[2] - p[2] \in {-1, 0, 1}}

\* C1: while the game is Playing no tile is both revealed and flagged.
\* The flood fill of reveal enters flagged tiles, so this fails.
C1_NoRevealedFlagged ==
    status = "Playing" => RevealedTiles \cap FlaggedTiles = {}

\* C2: a command ends in Won if and only if it is a Flag command that toggles
\* an unrevealed tile and leaves g_n_found = g_n_mines and g_n_flags =
\* g_n_found; a Reveal never wins; with no mines a toggle wins exactly when it
\* leaves no tile flagged; on a 2 x 1 board with one mine flagging the empty
\* tile does not win, and flagging the mine with the other tile unflagged does.
C2_WonIffFlagWins ==
    [][LET toggled == LastFlag' /\ g_board[LastLoc'].revealed = 0
           twoByOne == g_width = 2 /\ g_height = 1 /\ g_n_mines = 1
       IN /\ (status' = "Won") <=>
                (/\ toggled
                 /\ g_n_found' = g_n_mines'
                 /\ g_n_flags' = g_n_found')
          /\ cmd'.kind = "r" => status' # "Won"
          /\ (toggled /\ g_n_mines = 0) =>
                ((status' = "Won") <=> (FlaggedTiles' = {}))
          /\ (/\ toggled /\ twoByOne
              /\ g_board'[LastLoc'].mine = 0
              /\ g_board'[LastLoc'].flagged = 1) => status' # "Won"
          /\ (/\ toggled /\ twoByOne
              /\ g_board'[LastLoc'].mine = 1
              /\ FlaggedTiles' = {LastLoc'}) => status' = "Won"
      ]_vars

\* C2 witness: a Flag command on a board with a mine has won the game.
C2_Witness ==
    status = "Won" /\ LastFlag /\ g_n_mines >= 1 /\ g_width * g_height >= 2

\* C3: a Reveal with a valid position ends in Lost if and only if the tile,
\* when reveal is called, is unflagged and holds a mine; the step to Lost
\* leaves g_n_flags and g_n_found as they were.
C3_LostIffMineRevealed ==
    [][LastReveal' =>
         /\ (status' = "Lost") <=>
                (/\ g_board'[LastLoc'].mine = 1
                 /\ g_board'[LastLoc'].flagged = 0)
         /\ status' = "Lost" =>
                (g_n_flags' = g_n_flags /\ g_n_found' = g_n_found)
      ]_vars

\* C3 witness: a Reveal has hit a mine while flags were on the board.
C3_Witness == status = "Lost" /\ LastReveal /\ g_n_flags >= 1

\* C4: once the board is initialized exactly g_n_mines tiles hold a mine.
C4_MineCountKept ==
    g_board_initialized = 1 => Cardinality(MineTiles) = g_n_mines

\* C4 witness: the first reveal has moved a mine and the game goes on.
C4_Witness ==
    /\ cmd.moved
    /\ status = "Playing"
    /\ g_n_mines >= 2
    /\ Cardinality(MineTiles) = g_n_mines

\* C5: after initialization the around field of every tile is the number of
\* its neighbours that hold a mine. make_space does not recompute it, so this
\* fails after a relocation.
C5_AroundIsNeighbourMines ==
    g_board_initialized = 1 =>
        \A p \in AllTiles : g_board[p].around = Cardinality(MinedNeighbours(p))

\* C6: a Reveal that leaves the game Playing reveals no tile that was flagged
\* and unrevealed before it. The flood fill tests only revealed, so this fails.
C6_FloodSkipsFlagged ==
    [][(LastReveal' /\ status' = "Playing") =>
         \A p \in FlaggedTiles \ RevealedTiles : g_board'[p].revealed = 0
      ]_vars

\* C7: after a Reveal that leaves the game Playing no tile holding a mine is
\* revealed. After a relocation the stale around counts let the flood fill
\* walk onto the moved mine, so this fails.
C7_FloodRevealsNoMine ==
    [][(LastReveal' /\ status' = "Playing") =>
         (MineTiles' \cap RevealedTiles' = {})
      ]_vars

\* C8: when the command that initializes the board is a Reveal with a valid
\* position, then with g_n_mines < g_width * g_height the tile holds no mine
\* when reveal runs and the game is not Lost, and with every tile mined no
\* mine is moved and the game is Lost.
C8_FirstRevealSafe ==
    [][(g_board_initialized = 0 /\ LastReveal') =>
         IF g_n_mines < g_width * g_height
         THEN g_board'[LastLoc'].mine = 0 /\ status' # "Lost"
         ELSE /\ ~cmd'.moved
              /\ MineTiles' = AllTiles
              /\ status' = "Lost"
      ]_vars

\* C8 witness: the first command was a Reveal on a mine, the mine was moved
\* and the game goes on.
C8_Witness ==
    /\ LastReveal /\ cmd.first /\ cmd.moved
    /\ status = "Playing"
    /\ g_board[LastLoc].mine = 0
    /\ g_board[LastLoc].revealed = 1

\* C9: g_n_flags is the number of flagged tiles, g_n_found the number of
\* flagged tiles holding a mine, and 0 <= g_n_found <= g_n_flags <= area.
C9_CountersMatchBoard ==
    /\ g_n_flags = Cardinality(FlaggedTiles)
    /\ g_n_found = Cardinality(FlaggedTiles \cap MineTiles)
    /\ 0 <= g_n_found
    /\ g_n_found <= g_n_flags
    /\ g_n_flags <= g_width * g_height

\* C9 witness: a flag was taken off a mine while other flags, on a mine and
\* on an empty tile, stay.
C9_Witness ==
    /\ LastFlag
    /\ g_board[LastLoc].flagged = 0
    /\ g_board[LastLoc].mine = 1
    /\ g_n_found >= 1
    /\ g_n_flags > g_n_found

\* C10: on an initialized board, a Flag command on the tile the previous
\* command flag-toggled (without ending the game) brings back the board and
\* both counters that toggle started from.
C10_ToggleTwiceRestores ==
    [][(/\ undo.valid
        /\ undo.initialized = 1
        /\ LastFlag'
        /\ LastLoc' = undo.p) =>
         /\ g_board' = undo.board
         /\ g_n_flags' = undo.flags
         /\ g_n_found' = undo.found
         /\ status' = "Playing"
      ]_vars

\* C10 witness: the same mined tile was flagged and unflagged in a row on an
\* initialized board.
C10_Witness ==
    /\ undo.valid
    /\ undo.twice
    /\ LastFlag
    /\ g_board[LastLoc].mine = 1
    /\ g_board[LastLoc].flagged = 0

\* The board, both counters and g_board_initialized stay as they are.
BoardUnchanged ==
    UNCHANGED <<g_board, g_n_flags, g_n_found, g_board_initialized>>

\* The last command's position token fails one of parse_location's tests:
\* no letter, a column index >= g_width, a row < 1 or a row > g_height.
BadToken(c) ==
    c.col < 0 \/ c.col >= g_width \/ c.row < 1 \/ c.row > g_height

\* C11: Empty, Help and a Reveal or Flag whose position is unparseable or out
\* of range change nothing of the board state and keep the game Playing; so
\* does a Reveal of a flagged tile.
C11_InvalidChangesNothing ==
    [][(\/ cmd'.kind \in {"empty", "h"}
        \/ cmd'.kind \in {"r", "f"} /\ BadToken(cmd')
        \/ LastReveal' /\ g_board[LastLoc'].flagged = 1) =>
         (BoardUnchanged /\ status' = "Playing")
      ]_vars

\* C11 witness: with flags and revealed tiles on the board, a Reveal named a
\* column beyond the last one.
C11_Witness ==
    /\ cmd.kind = "r"
    /\ cmd.col = g_width
    /\ g_board_initialized = 1
    /\ g_n_flags >= 1
    /\ RevealedTiles # {}
    /\ status = "Playing"

\* C17: a Reveal of a tile that is already revealed changes no tile and no
\* counter and keeps the game Playing. reveal tests mine before revealed, and
\* the flood fill can have revealed a mine, so this fails.
C17_RevealOfRevealedIsNoOp ==
    [][(LastReveal' /\ g_board[LastLoc'].revealed = 1) =>
         (BoardUnchanged /\ status' = "Playing")
      ]_vars

\* C18: a Flag command on a revealed tile changes no flagged bit, neither
\* counter nor g_board_initialized, and never wins.
C18_FlagOfRevealedIgnored ==
    [][(LastFlag' /\ g_board[LastLoc'].revealed = 1) =>
         (BoardUnchanged /\ status' = "Playing")
      ]_vars

\* C18 witness: a Flag command named a revealed tile while the win condition
\* held, and the game goes on.
C18_Witness ==
    /\ LastFlag
    /\ g_board[LastLoc].revealed = 1
    /\ g_board[LastLoc].flagged = 0
    /\ g_n_found = g_n_mines
    /\ g_n_flags = g_n_found
    /\ status = "Playing"

\* The mine layouts init_board can leave on the board b.
ShuffledLayouts(b) ==
    {{p \in DOMAIN s : s[p].mine = 1} :
        s \in init_board(b, g_width, g_height, g_n_mines)}

\* C19: mines are placed once; g_board_initialized never falls back; only a
\* Reveal that initializes the board moves a mine; an initialization by any
\* other command leaves a layout of the shuffle; and once the board is
\* initialized, and so whenever a tile is flagged, the layout stays.
C19_LayoutFixedAfterFirstCommand ==
    [][/\ g_board_initialized = 1 =>
            (g_board_initialized' = 1 /\ ~cmd'.first /\ MineTiles' = MineTiles)
       /\ cmd'.first => (g_board_initialized = 0 /\ g_board_initialized' = 1)
       /\ cmd'.moved => (cmd'.kind = "r" /\ cmd'.first)
       /\ (cmd'.first /\ cmd'.kind # "r") =>
            MineTiles' \in ShuffledLayouts(g_board)
       /\ FlaggedTiles # {} => MineTiles' = MineTiles
      ]_vars

\* C19 witness: with a flag on a mine, a Reveal that was not the first
\* command ran on a board with room for a move and moved nothing.
C19_Witness ==
    /\ LastReveal
    /\ ~cmd.first /\ ~cmd.moved
    /\ status = "Playing"
    /\ FlaggedTiles \cap MineTiles # {}
    /\ g_n_mines < g_width * g_height

\* C20: between commands every tile has angle = 0 and dx, dy in {-1, 0, 1}.
C20_ScratchClean ==
    \A p \in AllTiles :
        /\ g_board[p].angle = 0
        /\ g_board[p].dx \in {-1, 0, 1}
        /\ g_board[p].dy \in {-1, 0, 1}

\* C20 witness: a flood fill has walked forward onto other tiles, diagonally
\* too, and come back.
C20_Witness ==
    /\ LastReveal
    /\ status = "Playing"
    /\ \E p \in AllTiles : g_board[p].dx # 0 /\ g_board[p].dy # 0
    /\ \E p \in AllTiles : g_board[p].dx = 0 /\ g_board[p].dy # 0

\* C12: a Quit command ends the game without asking exactly when the board
\* is not initialized; on an initialized board it asks, ends the game exactly
\* on a confirming answer or the end of the input, and a declined
\* confirmation leaves the game Playing and the board as it was.
C12_QuitAsksOnceInitialized ==
    [][cmd'.kind = "q" =>
         /\ (cmd'.answer = "none") <=> (g_board_initialized = 0)
         /\ g_board_initialized = 0 => status' = "Quit"
         /\ g_board_initialized = 1 =>
                ((status' = "Quit") <=> (cmd'.answer \in {"y", "eof"}))
         /\ cmd'.answer = "n" => (status' = "Playing" /\ BoardUnchanged)
      ]_vars

\* C12 witness: with flags and revealed tiles on the board a Quit was
\* declined.
C12_Witness ==
    /\ cmd.kind = "q"
    /\ cmd.answer = "n"
    /\ status = "Playing"
    /\ g_n_flags >= 1
    /\ RevealedTiles # {}

\* C13: no command is processed once the game is Won, Lost or Quit, and the
\* step that ends the game leaves every tile revealed.
C13_TerminalStatesFinal ==
    [][/\ status = "Playing"
       /\ status' # "Playing" => RevealedTiles' = AllTiles'
      ]_vars

\* C13 witness: the game was won on a board of several tiles, all revealed.
C13_Witness ==
    /\ status = "Won"
    /\ Cardinality(AllTiles) >= 3
    /\ RevealedTiles = AllTiles
    /\ FlaggedTiles # {}

\* C14: for every width in 1..26, height in 1..30 and g_n_found up to the
\* area, the score is g_n_found^2 * 1000 / (width * height) rounded toward
\* zero, and the product g_n_found^2 * 1000 stays within an int.
C14_ScoreIsScaledSquare ==
    score # NoScore =>
        /\ g_n_found * g_n_found * 1000 <= INT_MAX
        /\ score = <<(g_n_found * g_n_found * 1000) \div (g_width * g_height)>>

\* C14 witness: the score of the largest board with every tile found, and
\* so the largest product.
C14_Witness ==
    /\ g_width = MAX_WIDTH
    /\ g_height = MAX_HEIGHT
    /\ g_n_found = MAX_WIDTH * MAX_HEIGHT
    /\ score = <<780000>>

\* The tiles next to p on the board b, and the tiles of b with no mine next
\* to them.
NeighboursOf(b, p) ==
    {q \in DOMAIN b : /\ q # p
                      /\ q[1] - p[1] \in {-1, 0, 1}
                      /\ q[2] - p[2] \in {-1, 0, 1}}
ZeroTiles(b) == {p \in DOMAIN b : \A q \in NeighboursOf(b, p) : b[q].mine = 0}

\* S and every tile reached from it by steps that leave only zero-adjacency
\* tiles and enter no flagged tile.
RECURSIVE GrowRegion(_, _)
GrowRegion(b, S) ==
    LET T == S \cup {q \in DOMAIN b :
                       /\ b[q].flagged = 0
                       /\ \E p \in S \cap ZeroTiles(b) : q \in NeighboursOf(b, p)}
    IN IF T = S THEN S ELSE GrowRegion(b, T)

\* C15: a Reveal of an unrevealed, unflagged tile without a mine leaves
\* revealed exactly the tiles revealed before, the target and the region
\* reached from it through zero-adjacency tiles without entering a flagged
\* tile, and the game stays Playing. The flood fill enters flagged tiles and
\* follows stale around counts, so this fails.
C15_RevealedIsRegion ==
    [][(/\ LastReveal'
        /\ g_board'[LastLoc'].mine = 0
        /\ g_board[LastLoc'].revealed = 0
        /\ g_board[LastLoc'].flagged = 0) =>
         /\ RevealedTiles' = RevealedTiles \cup GrowRegion(g_board', {LastLoc'})
         /\ status' = "Playing"
      ]_vars

\* The tiles a forward step of the running or last fill entered.
EnteredTiles == {q \in DOMAIN fill.entered : fill.entered[q] >= 1}

\* C16: the flood fill of reveal terminates from every start tile of every
\* board: no tile is entered by a forward step more than once, and the start
\* tile never; a tile is entered only while unrevealed and is revealed from
\* then on; when the loop ends it stands on the start tile, whose dx = dy = 0,
\* and has left the board reveal computes; and a loop that runs ends.
C16_FloodFillTerminates ==
    /\ [](fill.start # NoLocation =>
            /\ \A q \in DOMAIN fill.entered : fill.entered[q] <= 1
            /\ fill.entered[fill.start] = 0
            /\ \A q \in EnteredTiles :
                 /\ fill.from[q].revealed = 0
                 /\ \/ g_board[q].revealed = 1
                    \/ fill.pc = "check_tile" /\ q = <<fill.x, fill.y>>
            /\ fill.pc = "idle" =>
                 /\ <<fill.x, fill.y>> = fill.start
                 /\ g_board[fill.start].dx = 0
                 /\ g_board[fill.start].dy = 0
                 /\ g_board = reveal(fill.from, g_width, g_height,
                                     fill.start[1], fill.start[2]).board)
    /\ (fill.pc # "idle") ~> (fill.pc = "idle")

\* C16 witness: a fill has entered three tiles beyond its start and ended.
C16_Witness ==
    /\ fill.pc = "idle"
    /\ fill.start # NoLocation
    /\ Cardinality(EnteredTiles) >= 3
    /\ EnteredTiles \subseteq RevealedTiles

====
